---- MODULE Spec2Model ----
(***************************************************************************)
(* Invoice / stock engine of pragati-server-prototype.                     *)
(*                                                                         *)
(* The handlers of the invoice controller (createInvoice, getInvoiceById,  *)
(* updateInvoice, updateInvoiceStatus, deleteInvoice) run against the      *)
(* PostgreSQL schema of query.sql.  Every handler that opens a transaction *)
(* is a process that executes its SQL statements one at a time; between    *)
(* two statements the other connection may run.  The store is PostgreSQL   *)
(* at its default isolation level (READ COMMITTED): a statement sees the   *)
(* committed rows plus the writes of its own transaction, an UPDATE or     *)
(* DELETE of a row written by an open transaction waits for it, and CHECK, *)
(* UNIQUE and FOREIGN KEY constraints of query.sql are enforced.           *)
(*                                                                         *)
(* Statements of a handler that touch nothing another transaction can see  *)
(* or lock (BEGIN, reads of the static parties table, writes to rows only  *)
(* this transaction can see, the trailing COMMIT / ROLLBACK) are taken in  *)
(* the same step as the neighbouring statement.  The request body is read  *)
(* where the handler first uses it: the lines of a request are drawn one   *)
(* per loop iteration.                                                     *)
(***************************************************************************)
EXTENDS Integers, Sequences, FiniteSets, Bags, TLC

\* ------------------------------------------------------------------ bounds
MaxQty == 2        \* largest quantity a request line asks for
MaxLines == 2      \* longest items array of a request
InitStock == 2     \* stock of every item in the initial catalog
MaxRequests == 3   \* requests served in a run with two connections
CrossRequests == 2 \* requests served in a run of two connections on two items
NewPrice == 3      \* price a catalog edit sets
NewQuantity == 1   \* quantity a catalog edit sets
MoreStock == 3     \* a stock an item is restocked to by updateItem
ReplayRequests == 4 \* requests served in a run that repeats a request

\* ----------------------------------------------------------------- domains
NULL == "null"     \* JS undefined / null, SQL NULL
\* the absence of an invoices row
NoRow ==
  [company_id |-> NULL, party_id |-> NULL, invoice_number |-> NULL,
   due_date |-> NULL, total_amount |-> 0, status |-> NULL]

Procs == {"a", "b"}                 \* pooled connections serving requests
Companies == {"c1", "c2"}           \* tenants (req.user.company_id)
Parties == {"p1", "p2", "p3"}
Items == {"i1", "i2", "i3"}
InvIds == {"n1", "n2"}              \* uuids the invoices table hands out
InvoiceNumbers == {"INV-1", "INV-2"}
DueDates == {"d1", "d2"}            \* d1 is before NOW(), d2 after

\* invoice_status enum
Statuses == {"draft", "sent", "paid", "cancelled"}

\* The request bodies the handlers are driven with.
\*   Wide: one connection; tenant c1 creates invoices, both tenants call the
\*   other operations; lines are valid lines on the items of c1 or one of each
\*   kind of invalid line (no item_id, quantity 0, negative quantity, item of
\*   the other tenant).
\*   Narrow: the valid requests of tenant c1 on one item with arrays of at
\*   most one line, for the runs in which two connections interleave.
\*   Tenants: both tenants create invoices under the same invoice number and
\*   change due_date, party and status of their invoices.
\*   Catalog: tenant c1 bills one item while its catalog row (price, quantity)
\*   is edited through updateItem.
\*   Cross: two connections, tenant c1 bills one unit of each of two items,
\*   in either order, with arrays of up to MaxLines lines.
\*   Marked: tenant c1 creates and updates an invoice with a missing, a valid
\*   and an invalid status value ("void" and the empty string are not values
\*   of invoice_status).
\* Only in Catalog do the catalog edits touch price and quantity; elsewhere
\* they leave both alone (they only rename the item).  An optional number of
\* a request body is <<>> when absent and <<v>> when it is v.
ValidLines(is) == {[item_id |-> i, quantity |-> q] : i \in is, q \in 1 .. MaxQty}
BadLines ==
  {[item_id |-> NULL, quantity |-> 1], [item_id |-> "i1", quantity |-> 0],
   [item_id |-> "i1", quantity |-> -1], [item_id |-> "i3", quantity |-> 1]}
Wide ==
  [creators |-> {"c1"}, companies |-> Companies, parties |-> {"p1", "p2"},
   numbers |-> {"INV-1"}, ids |-> InvIds,
   lines |-> ValidLines({"i1", "i2"}) \cup BadLines, maxLines |-> MaxLines,
   dues |-> {NULL}, statuses |-> {NULL, "paid"},
   createStatuses |-> {NULL},
   hasItems |-> BOOLEAN, newStatuses |-> {"sent", "void"}, limited |-> FALSE,
   budget |-> MaxRequests,
   newParties |-> {NULL, "p1", "p2"}, editItems |-> {"i1"},
   prices |-> {<<>>}, quantities |-> {<<>>},
   tracked |-> FALSE]
Narrow ==
  [creators |-> {"c1"}, companies |-> {"c1"}, parties |-> {"p1"},
   numbers |-> InvoiceNumbers, ids |-> InvIds,
   lines |-> ValidLines({"i1"}), maxLines |-> 1,
   dues |-> {NULL}, statuses |-> {NULL},
   createStatuses |-> {NULL},
   hasItems |-> {TRUE}, newStatuses |-> {"sent"}, limited |-> TRUE,
   budget |-> MaxRequests,
   newParties |-> {NULL}, editItems |-> {"i1"},
   prices |-> {<<>>}, quantities |-> {<<>>},
   tracked |-> FALSE]
Tenants ==
  [creators |-> Companies, companies |-> Companies, parties |-> {"p1", "p2"},
   numbers |-> {"INV-1"}, ids |-> InvIds,
   lines |-> {[item_id |-> i, quantity |-> 1] : i \in {"i1", "i3"}},
   maxLines |-> 1, dues |-> {NULL, "d1"}, statuses |-> {NULL, "paid"},
   createStatuses |-> {NULL},
   hasItems |-> BOOLEAN, newStatuses |-> {"sent"}, limited |-> FALSE,
   budget |-> MaxRequests,
   newParties |-> {NULL, "p2", "p3"}, editItems |-> {"i1"},
   prices |-> {<<>>}, quantities |-> {<<>>},
   tracked |-> FALSE]
Catalog ==
  [creators |-> {"c1"}, companies |-> {"c1"}, parties |-> {"p1"},
   numbers |-> {"INV-1"}, ids |-> {"n1"},
   lines |-> ValidLines({"i1"}), maxLines |-> 1,
   dues |-> {NULL}, statuses |-> {NULL},
   createStatuses |-> {NULL},
   hasItems |-> {TRUE}, newStatuses |-> {"sent"}, limited |-> FALSE,
   budget |-> MaxRequests,
   newParties |-> {NULL}, editItems |-> {"i1"},
   prices |-> {<<>>, <<NewPrice>>},
   quantities |-> {<<>>, <<-1>>, <<NewQuantity>>},
   tracked |-> FALSE]
Cross ==
  [creators |-> {"c1"}, companies |-> {"c1"}, parties |-> {"p1"},
   numbers |-> InvoiceNumbers, ids |-> InvIds,
   lines |-> {[item_id |-> i, quantity |-> 1] : i \in {"i1", "i2"}},
   maxLines |-> MaxLines, dues |-> {NULL}, statuses |-> {NULL},
   createStatuses |-> {NULL},
   hasItems |-> {TRUE}, newStatuses |-> {"sent"}, limited |-> TRUE,
   budget |-> CrossRequests,
   newParties |-> {NULL}, editItems |-> {"i1"},
   prices |-> {<<>>}, quantities |-> {<<>>},
   tracked |-> FALSE]
Marked ==
  [creators |-> {"c1"}, companies |-> {"c1"}, parties |-> {"p1"},
   numbers |-> {"INV-1"}, ids |-> {"n1"},
   lines |-> {[item_id |-> "i1", quantity |-> 1]}, maxLines |-> 1,
   dues |-> {NULL}, statuses |-> {NULL, "sent", "void", ""},
   createStatuses |-> {NULL, "paid", "void", ""},
   hasItems |-> BOOLEAN, newStatuses |-> {"cancelled", "void"},
   limited |-> FALSE,
   budget |-> MaxRequests,
   newParties |-> {NULL}, editItems |-> {"i1"},
   prices |-> {<<>>}, quantities |-> {<<>>},
   tracked |-> FALSE]
Replay ==
  [creators |-> {"c1"}, companies |-> {"c1"}, parties |-> {"p1"},
   numbers |-> {"INV-1"}, ids |-> {"n1"},
   lines |-> ValidLines({"i1"}), maxLines |-> MaxLines,
   dues |-> {NULL}, statuses |-> {NULL},
   createStatuses |-> {NULL},
   hasItems |-> {TRUE}, newStatuses |-> {"sent"}, limited |-> TRUE,
   budget |-> ReplayRequests,
   newParties |-> {NULL}, editItems |-> {"i1"},
   prices |-> {<<>>}, quantities |-> {<<>>, <<MoreStock>>},
   tracked |-> TRUE]

\* parties table (static): company of each party
PartyCompany(x) == IF x = "p2" THEN "c2" ELSE "c1"
\* parties.type (party_type enum): p3 is a supplier of c1
PartyType(x) == IF x = "p3" THEN "supplier" ELSE "customer"

\* initial items table: company and price of each item
ItemCompany(i) == IF i = "i3" THEN "c2" ELSE "c1"
ItemPrice(i) == IF i = "i2" THEN 3 ELSE 2

EmptyFn == [x \in {} |-> x]

\* ---------------------------------------------------------------- state
VARIABLES
  items,          \* committed items table: id -> [company_id, price, quantity]
  invoices,       \* committed invoices table: id -> row or NoRow
  invoice_items,  \* committed invoice_items table: bag of rows
  tx,             \* per connection: the uncommitted writes of its transaction
  usedIds,        \* invoice ids already generated for rows that exist(ed)
  pc,             \* per connection: next statement of the handler
  req,            \* per connection: the request being served
  loc,            \* per connection: local variables of the handler
  res,            \* per connection: response of the finished request
  snap,           \* (history) committed tables when the request started
  isolated,       \* (history) no other transaction was open during the request
  stockBefore,    \* (history) per invoice: stock when its creation started
  undisturbed,    \* (history) per invoice: only isolated transactions on this
                  \*           invoice changed stock since it was created
  served,         \* (history) requests started, counted where they are bounded
  prev,           \* (history) per connection: the request answered last
  abandoned       \* (history) per connection: the caller has gone away

vars == <<items, invoices, invoice_items, tx, usedIds, pc, req, loc, res,
          snap, isolated, stockBefore, undisturbed, served, prev, abandoned>>

\* the history of the callers
hist == <<prev, abandoned>>

tables == <<items, invoices, invoice_items>>

\* ------------------------------------------------------- bags of line rows
RECURSIVE SumQtySet(_, _)
\* SUM(quantity) over the rows of the set S, each counted B[r] times
SumQtySet(B, S) ==
  IF S = {} THEN 0
  ELSE LET r == CHOOSE x \in S : TRUE
       IN r.quantity * B[r] + SumQtySet(B, S \ {r})

RECURSIVE SumTotalSet(_, _)
\* SUM(total_line_amount) over the rows of the set S, each counted B[r] times
SumTotalSet(B, S) ==
  IF S = {} THEN 0
  ELSE LET r == CHOOSE x \in S : TRUE
       IN r.total_line_amount * B[r] + SumTotalSet(B, S \ {r})

SumQty(B) == SumQtySet(B, DOMAIN B)
SumTotal(B) == SumTotalSet(B, DOMAIN B)

Restrict(B, keep(_)) == [r \in {x \in DOMAIN B : keep(x)} |-> B[r]]

LinesOf(B, k) == Restrict(B, LAMBDA r : r.invoice_id = k)
LinesOfItem(B, k, i) == Restrict(B, LAMBDA r : r.invoice_id = k /\ r.item_id = i)

\* ----------------------------------------------------- transaction views
NoWrites == [items |-> EmptyFn, invoices |-> EmptyFn, lkeys |-> {}, lnew |-> EmptyBag]

\* what a statement of a transaction with writes t sees (READ COMMITTED:
\* committed rows, overridden by the transaction's own writes)
QtyIn(t, i) == IF i \in DOMAIN t.items THEN t.items[i] ELSE items[i].quantity
RowIn(t, k) == IF k \in DOMAIN t.invoices THEN t.invoices[k] ELSE invoices[k]
LinesIn(t) ==
  Restrict(invoice_items, LAMBDA r : <<r.invoice_id, r.item_id>> \notin t.lkeys)
    (+) t.lnew

\* (variant) an invoices table without the unique index: an INSERT waits for
\* no one
NoKeyLockers(p, c, n) == {}

\* row locks held by the other open transactions
ItemLockers(p, i) == {q \in Procs \ {p} : i \in DOMAIN tx[q].items}
\* (variant) UPDATE invoices takes no row lock
NoInvLockers(p, k) == {}
InvLockers(p, k) ==
  IF invoices[k] = NoRow THEN {}
  ELSE {q \in Procs \ {p} : k \in DOMAIN tx[q].invoices}
LineLockers(p, k, is) ==
  {q \in Procs \ {p} : \E i \in is : <<k, i>> \in tx[q].lkeys}
\* open transactions holding an uncommitted insert, update or delete of an
\* invoices row with the unique key (c, n)
KeyLockers(p, c, n) ==
  {q \in Procs \ {p} : \E k \in DOMAIN tx[q].invoices :
     \/ /\ tx[q].invoices[k] # NoRow
        /\ tx[q].invoices[k].company_id = c
        /\ tx[q].invoices[k].invoice_number = n
     \/ /\ invoices[k] # NoRow
        /\ invoices[k].company_id = c
        /\ invoices[k].invoice_number = n}

\* ------------------------------------------------- schema constraints
\* (variant) the items table without its CHECK on quantity
ItemsQuantityUnchecked(q) == TRUE

\* items.quantity INTEGER NOT NULL DEFAULT 0 CHECK (quantity >= 0)
ItemsQuantityCheck(q) == q >= 0

\* CREATE TYPE invoice_status AS ENUM (...): the input function of the type
\* accepts the value (otherwise error 22P02)
EnumAccepts(st) == st \in Statuses

\* (variant) no invoice number is ever found in use
InvoiceKeyFree(t, c, n) == FALSE

\* (variant) invoice numbers unique across all tenants
InvoiceNumberTaken(t, c, n) ==
  \E k \in InvIds : RowIn(t, k) # NoRow /\ RowIn(t, k).invoice_number = n

\* invoices: UNIQUE (company_id, invoice_number), as seen by a transaction
\* with writes t
InvoiceKeyTaken(t, c, n) ==
  \E k \in InvIds : /\ RowIn(t, k) # NoRow
                    /\ RowIn(t, k).company_id = c
                    /\ RowIn(t, k).invoice_number = n

\* ------------------------------------------------------ requests, locals
NoReq ==
  [op |-> NULL, company_id |-> NULL, id |-> NULL, party_id |-> NULL,
   invoice_number |-> NULL, due_date |-> NULL, status |-> NULL,
   hasItems |-> FALSE, items |-> <<>>, price |-> <<>>, quantity |-> <<>>]

NoLine == [item_id |-> NULL, quantity |-> 0, price |-> 0, change |-> 0]

\* the data of getInvoiceSummary's response
NoSummary ==
  [total_invoices |-> 0, total_amount |-> 0, paid_amount |-> 0, overdue |-> 0]

\* the data of getMonthlySummary's response: the number of month rows and
\* the sums of the one month in which every invoice of a run is dated
NoMonthly == [months |-> 0, total_sales |-> 0, total_purchases |-> 0]

NoLoc ==
  [invoiceId |-> NULL, totalAmount |-> 0, line |-> NoLine,
   existingMap |-> EmptyFn, rows |-> EmptyBag, summary |-> NoSummary,
   monthly |-> NoMonthly]

\* no request answered yet
NoPrev == [req |-> NoReq, res |-> NULL]

NoSnap == [items |-> EmptyFn, invoices |-> EmptyFn, invoice_items |-> EmptyBag]

Open(q) == pc[q] \notin {"idle", "done"}

\* ---------------------------------------------------------------- Init
Init ==
  /\ items = [i \in Items |->
                [company_id |-> ItemCompany(i), price |-> ItemPrice(i),
                 quantity |-> InitStock]]
  /\ invoices = [k \in InvIds |-> NoRow]
  /\ invoice_items = EmptyBag
  /\ tx = [p \in Procs |-> NoWrites]
  /\ usedIds = {}
  /\ pc = [p \in Procs |-> "idle"]
  /\ req = [p \in Procs |-> NoReq]
  /\ loc = [p \in Procs |-> NoLoc]
  /\ res = [p \in Procs |-> NULL]
  /\ snap = [p \in Procs |-> NoSnap]
  /\ isolated = [p \in Procs |-> TRUE]
  /\ stockBefore = [k \in InvIds |-> EmptyFn]
  /\ undisturbed = [k \in InvIds |-> FALSE]
  /\ served = 0
  /\ prev = [p \in Procs |-> NoPrev]
  /\ abandoned = [p \in Procs |-> FALSE]

\* ------------------------------------------------- begin, commit, rollback
\* a request r arrives on the idle connection p (pool.connect, BEGIN); where
\* D.limited, at most MaxRequests requests are served
Begin(p, D, r) ==
  /\ pc[p] = "idle"
  /\ D.limited => served < D.budget
  /\ served' = IF D.limited THEN served + 1 ELSE served
  /\ UNCHANGED hist
  /\ req' = [req EXCEPT ![p] = r]
  /\ snap' = [snap EXCEPT ![p] =
                [items |-> items, invoices |-> invoices,
                 invoice_items |-> invoice_items]]
  /\ isolated' = [q \in Procs |->
                    IF q = p THEN \A o \in Procs \ {p} : ~Open(o)
                    ELSE IF Open(q) THEN FALSE ELSE isolated[q]]

StockOf(tbl) == [i \in DOMAIN tbl |-> tbl[i].quantity]

\* COMMIT of the transaction of p whose writes are t: the writes become the
\* committed rows and the row locks are released
Commit(p, t, target) ==
  LET created == {k \in DOMAIN t.invoices :
                    invoices[k] = NoRow /\ t.invoices[k] # NoRow}
      stockChanged == \E i \in DOMAIN t.items : t.items[i] # items[i].quantity
  IN /\ items' = [i \in Items |-> [items[i] EXCEPT !.quantity = QtyIn(t, i)]]
     /\ invoices' = [k \in InvIds |-> RowIn(t, k)]
     /\ invoice_items' = LinesIn(t)
     /\ tx' = [tx EXCEPT ![p] = NoWrites]
     /\ usedIds' = usedIds
     /\ stockBefore' = [k \in InvIds |->
                          IF k \in created THEN StockOf(snap[p].items)
                          ELSE stockBefore[k]]
     /\ undisturbed' = [k \in InvIds |->
                          IF k \in created THEN isolated[p]
                          ELSE IF k = target THEN undisturbed[k] /\ isolated[p]
                          ELSE undisturbed[k] /\ ~stockChanged]

\* (variant) the transaction of p ends with its writes kept
RollbackKeepsWrites(p) == Commit(p, tx[p], NULL)

\* ROLLBACK of the transaction of p: its writes are discarded, its row locks
\* released; the id of an invoice row it had inserted was never visible
Rollback(p) ==
  /\ tx' = [tx EXCEPT ![p] = NoWrites]
  /\ usedIds' = usedIds \ {k \in DOMAIN tx[p].invoices : invoices[k] = NoRow}
  /\ UNCHANGED <<tables, stockBefore, undisturbed>>

\* (variant) a catch block that answers without ROLLBACK: the connection
\* goes back to the pool and its writes get committed with it
FailWithoutRollback(p, kind) ==
  /\ Commit(p, tx[p], NULL)
  /\ pc' = [pc EXCEPT ![p] = "done"]
  /\ res' = [res EXCEPT ![p] = kind]

\* the handler's catch block: ROLLBACK, then the error response
Fail(p, kind) ==
  /\ Rollback(p)
  /\ pc' = [pc EXCEPT ![p] = "done"]
  /\ res' = [res EXCEPT ![p] = kind]

\* the handler's success path: COMMIT, then the success response
Succeed(p, t, target) ==
  /\ Commit(p, t, target)
  /\ pc' = [pc EXCEPT ![p] = "done"]
  /\ res' = [res EXCEPT ![p] = "ok"]

\* the response is sent and the connection released (finally)
Respond(p, D) ==
  /\ pc[p] = "done"
  /\ pc' = [pc EXCEPT ![p] = "idle"]
  /\ req' = [req EXCEPT ![p] = NoReq]
  /\ loc' = [loc EXCEPT ![p] = NoLoc]
  /\ res' = [res EXCEPT ![p] = NULL]
  /\ snap' = [snap EXCEPT ![p] = NoSnap]
  /\ isolated' = [isolated EXCEPT ![p] = TRUE]
  /\ prev' = IF D.tracked
              THEN [prev EXCEPT ![p] = [req |-> req[p], res |-> res[p]]]
            ELSE prev
  /\ abandoned' = [abandoned EXCEPT ![p] = FALSE]
  /\ UNCHANGED <<tables, tx, usedIds, stockBefore, undisturbed, served>>

\* a line of the request body is invalid: `!item_id`, `!quantity || quantity <= 0`
LineError(item_id, quantity) ==
  IF item_id = NULL THEN "ItemIdRequired"
  ELSE IF quantity <= 0 THEN "InvalidQuantity"
  ELSE "none"

\* (variant) items looked up and updated by id alone
ItemFoundAnyTenant(item_id, c) == item_id \in Items

\* SELECT price, quantity AS stock_quantity FROM items
\*  WHERE id = item_id AND company_id = c   finds a row
ItemFound(item_id, c) == item_id \in Items /\ items[item_id].company_id = c

\* (variant) the party looked up by id alone
PartyFoundAnyTenant(party_id, c) == party_id \in Parties

\* SELECT 1 FROM parties WHERE id = party_id AND company_id = c  finds a row
PartyFound(party_id, c) == party_id \in Parties /\ PartyCompany(party_id) = c

\* ------------------------------------------------------------ createInvoice
\* BEGIN; 0) party check; 0.1) invoice_number pre-check
CreateStart(p, D) ==
  \E c \in D.creators, party \in D.parties, n \in D.numbers :
    /\ Begin(p, D, [NoReq EXCEPT !.op = "create", !.company_id = c,
                              !.party_id = party, !.invoice_number = n,
                              !.hasItems = TRUE])
    /\ loc' = loc
    /\ IF ~PartyFound(party, c)
         THEN Fail(p, "PartyNotFound")
       ELSE IF InvoiceKeyTaken(tx[p], c, n)
         THEN Fail(p, "DuplicateInvoiceNumber")
       ELSE /\ pc' = [pc EXCEPT ![p] = "c_insert"]
            /\ UNCHANGED <<tables, tx, usedIds, res, stockBefore, undisturbed>>

\* Step A: INSERT INTO invoices ... total_amount = 0, COALESCE(status, 'draft')
CreateInsert(p, D) ==
  /\ pc[p] = "c_insert"
  /\ \E due \in D.dues, st \in D.createStatuses :
       /\ req' = [req EXCEPT ![p].due_date = due, ![p].status = st]
       /\ IF st # NULL /\ ~EnumAccepts(st)
            \* the cast of the value fails before the row is formed
            THEN /\ Fail(p, "InvalidEnumValue")
                 /\ loc' = loc
          ELSE IF KeyLockers(p, req[p].company_id, req[p].invoice_number) # {}
            \* the INSERT waits for the holder of the index entry
            THEN FALSE
          ELSE IF InvoiceKeyTaken(tx[p], req[p].company_id, req[p].invoice_number)
            \* unique violation 23505
            THEN /\ Fail(p, "DuplicateInvoiceNumber")
                 /\ loc' = loc
          ELSE LET k == CHOOSE x \in InvIds \ usedIds : TRUE
                   row == [company_id |-> req[p].company_id,
                           party_id |-> req[p].party_id,
                           invoice_number |-> req[p].invoice_number,
                           due_date |-> due, total_amount |-> 0,
                           status |-> IF st = NULL THEN "draft" ELSE st]
               IN /\ InvIds \ usedIds # {}
                  /\ usedIds' = usedIds \cup {k}
                  /\ tx' = [tx EXCEPT ![p].invoices = (k :> row) @@ @]
                  /\ loc' = [loc EXCEPT ![p].invoiceId = k]
                  /\ pc' = [pc EXCEPT ![p] = "c_line"]
                  /\ UNCHANGED <<tables, res, stockBefore, undisturbed>>
  /\ UNCHANGED <<snap, isolated, served, hist>>

\* Step B, one iteration up to the INSERT of the line: validate the line,
\* fetch the item, check the stock, insert the line
CreateLine(p, D) ==
  /\ pc[p] = "c_line"
  /\ Len(req[p].items) < D.maxLines
  /\ \E line \in D.lines :
       LET item_id == line.item_id
           quantity == line.quantity
           c == req[p].company_id
           priceAtPurchase == items[item_id].price
           stock_quantity == QtyIn(tx[p], item_id)
           totalLineAmount == priceAtPurchase * quantity
           row == [invoice_id |-> loc[p].invoiceId, item_id |-> item_id,
                   quantity |-> quantity, price_at_purchase |-> priceAtPurchase,
                   total_line_amount |-> totalLineAmount]
       IN /\ req' = [req EXCEPT ![p].items =
                       Append(@, [item_id |-> item_id, quantity |-> quantity])]
          /\ IF LineError(item_id, quantity) # "none"
               THEN Fail(p, LineError(item_id, quantity)) /\ loc' = loc
             ELSE IF ~ItemFound(item_id, c)
               THEN Fail(p, "ItemNotFound") /\ loc' = loc
             ELSE IF stock_quantity < quantity
               THEN Fail(p, "InsufficientStock") /\ loc' = loc
             ELSE /\ loc' = [loc EXCEPT
                               ![p].totalAmount = @ + totalLineAmount,
                               ![p].line = [item_id |-> item_id,
                                            quantity |-> quantity,
                                            price |-> priceAtPurchase,
                                            change |-> quantity]]
                  /\ tx' = [tx EXCEPT ![p].lnew = @ (+) SetToBag({row})]
                  /\ pc' = [pc EXCEPT ![p] = "c_stock"]
                  /\ UNCHANGED <<tables, usedIds, res, stockBefore, undisturbed>>
  /\ UNCHANGED <<snap, isolated, served, hist>>

\* (variant) the stock update with the sign of the change inverted
StockWriteInverted(p, i, change) ==
  IF ItemFound(i, req[p].company_id)
    THEN [tx[p] EXCEPT !.items = (i :> (QtyIn(tx[p], i) + change)) @@ @]
  ELSE tx[p]

\* UPDATE items SET quantity = quantity - change WHERE id = i AND company_id = c
\* by the transaction of p: the new writes, given that no other transaction
\* holds the row
StockWrite(p, i, change) ==
  IF ItemFound(i, req[p].company_id)
    THEN [tx[p] EXCEPT !.items = (i :> (QtyIn(tx[p], i) - change)) @@ @]
  ELSE tx[p]

\* the transactions the stock update of p waits for
StockLockers(p, i) ==
  IF ItemFound(i, req[p].company_id) THEN ItemLockers(p, i) ELSE {}

\* the CHECK of items.quantity holds of every item row written in t
StockWriteOk(t) == \A i \in DOMAIN t.items : ItemsQuantityCheck(t.items[i])

\* Step B, end of the iteration: decrement stock WITH company scope
CreateStock(p) ==
  /\ pc[p] = "c_stock"
  /\ StockLockers(p, loc[p].line.item_id) = {}
  /\ LET t == StockWrite(p, loc[p].line.item_id, loc[p].line.change)
     IN IF ~StockWriteOk(t)
          THEN Fail(p, "CheckViolation")
        ELSE /\ tx' = [tx EXCEPT ![p] = t]
             /\ pc' = [pc EXCEPT ![p] = "c_line"]
             /\ UNCHANGED <<tables, usedIds, res, stockBefore, undisturbed>>
  /\ UNCHANGED <<req, loc, snap, isolated, served, hist>>

\* after the loop: UPDATE invoices SET total_amount = totalAmount; COMMIT
CreateCommit(p) ==
  /\ pc[p] = "c_line"
  /\ LET k == loc[p].invoiceId
         t == [tx[p] EXCEPT !.invoices =
                 IF RowIn(tx[p], k) # NoRow
                      /\ RowIn(tx[p], k).company_id = req[p].company_id
                   THEN (k :> [RowIn(tx[p], k) EXCEPT
                                 !.total_amount = loc[p].totalAmount]) @@ @
                 ELSE @]
     IN Succeed(p, t, k)
  /\ UNCHANGED <<req, loc, snap, isolated, served, hist>>

\* ------------------------------------------------------------ updateInvoice
\* (variant) the invoice looked up by id alone
InvoiceFoundAnyTenant(t, k, c) == RowIn(t, k) # NoRow

\* SELECT ... FROM invoices WHERE id = k AND company_id = c finds a row, for a
\* transaction with writes t
InvoiceFound(t, k, c) == RowIn(t, k) # NoRow /\ RowIn(t, k).company_id = c

\* (variant) the existing lines are not loaded
NoExistingLines(B) == {EmptyFn}

\* new Map(rows.map(row => [row.item_id, row.quantity])): one entry per item;
\* of several rows of one item the last one read wins, and the order in which
\* a SELECT without ORDER BY returns rows is not specified
MapsOf(B) ==
  LET keys == {r.item_id : r \in DOMAIN B}
      qtys == {r.quantity : r \in DOMAIN B}
  IN {m \in [keys -> qtys] :
        \A i \in keys : \E r \in DOMAIN B : r.item_id = i /\ r.quantity = m[i]}

Remove(m, i) == [x \in DOMAIN m \ {i} |-> m[x]]

\* BEGIN; 1) ensure invoice belongs to company; 1.1) party check
UpdateStart(p, D) ==
  \E c \in D.companies, id \in D.ids :
    /\ loc' = loc
    /\ IF ~InvoiceFound(tx[p], id, c)
         THEN /\ Begin(p, D, [NoReq EXCEPT !.op = "update", !.company_id = c,
                                        !.id = id])
              /\ Fail(p, "InvoiceNotFound")
       ELSE \E party \in D.newParties :
              /\ Begin(p, D, [NoReq EXCEPT !.op = "update", !.company_id = c,
                                        !.id = id, !.party_id = party])
              /\ IF party # NULL /\ ~PartyFound(party, c)
                   THEN Fail(p, "PartyNotFound")
                 ELSE /\ pc' = [pc EXCEPT ![p] = "u_meta"]
                      /\ UNCHANGED <<tables, tx, usedIds, res, stockBefore,
                                     undisturbed>>

\* (variant) the total is left as it was
TotalNotRecomputed(t, k, c) == t

\* SELECT COALESCE(SUM(total_line_amount), 0) FROM invoice_items WHERE
\* invoice_id = k; UPDATE invoices SET total_amount = that sum WHERE id = k
\* AND company_id = c: the writes of the transaction afterwards
RecomputeTotal(t, k, c) ==
  LET finalTotal == SumTotal(LinesOf(LinesIn(t), k))
  IN IF InvoiceFound(t, k, c)
       THEN [t EXCEPT !.invoices =
               (k :> [RowIn(t, k) EXCEPT !.total_amount = finalTotal]) @@ @]
     ELSE t

\* `x || null` for a string of the request body: the empty string is falsy
OrNull(x) == IF x = "" THEN NULL ELSE x

\* (variant) the fields are overwritten with whatever the request holds
MetaRowOverwritten(old, due, party, st) ==
  [old EXCEPT !.due_date = due, !.party_id = party,
              !.status = IF st # NULL THEN st ELSE @]

\* SET due_date = COALESCE($1, due_date), party_id = COALESCE($2, party_id),
\* status = COALESCE($3, status): the row afterwards
MetaRow(old, due, party, st) ==
  [old EXCEPT !.due_date = IF due # NULL THEN due ELSE @,
              !.party_id = IF party # NULL THEN party ELSE @,
              !.status = IF st # NULL THEN st ELSE @]

\* (variant) a missing items array is read as an empty one (`items = []`)
ItemsDefaultEmpty(hasItems) == TRUE

\* Array.isArray(items)
ItemsIsArray(hasItems) == hasItems

\* 2) UPDATE invoices SET due_date = COALESCE(..), party_id = COALESCE(..),
\* status = COALESCE(..); then, if items is an array, read the existing
\* lines into existingMap; otherwise COMMIT
UpdateMeta(p, D) ==
  /\ pc[p] = "u_meta"
  /\ \E due \in D.dues, st \in D.statuses, hasItems \in D.hasItems :
       LET k == req[p].id
           old == RowIn(tx[p], k)
           status == OrNull(st)
           new == MetaRow(old, due, req[p].party_id, status)
           t == IF InvoiceFound(tx[p], k, req[p].company_id)
                  THEN [tx[p] EXCEPT !.invoices = (k :> new) @@ @]
                ELSE tx[p]
       IN /\ req' = [req EXCEPT ![p].due_date = due, ![p].status = st,
                                ![p].hasItems = hasItems]
          /\ IF status # NULL /\ ~EnumAccepts(status)
               \* the status parameter is rejected when the UPDATE is bound
               THEN /\ Fail(p, "InvalidEnumValue")
                    /\ loc' = loc
             ELSE IF InvLockers(p, k) # {}
               \* the UPDATE waits for the holder of the row lock
               THEN FALSE
             ELSE IF ItemsIsArray(hasItems)
               THEN /\ \E m \in MapsOf(LinesOf(LinesIn(t), k)) :
                         loc' = [loc EXCEPT ![p].existingMap = m]
                    /\ tx' = [tx EXCEPT ![p] = t]
                    /\ pc' = [pc EXCEPT ![p] = "u_line"]
                    /\ UNCHANGED <<tables, usedIds, res, stockBefore,
                                   undisturbed>>
             ELSE /\ Succeed(p, t, k)
                  /\ loc' = loc
  /\ UNCHANGED <<snap, isolated, served, hist>>

\* (variant) the change is the whole desired quantity
QuantityChangeFull(quantity, prevQty) == quantity

\* const quantityChange = Number(quantity) - Number(prevQty)
QuantityChange(quantity, prevQty) == quantity - prevQty

\* 3) one iteration of the loop over items, up to the line write: validate
\* the line, fetch the item, compute quantityChange, check the stock
UpdateLine(p, D) ==
  /\ pc[p] = "u_line"
  /\ Len(req[p].items) < D.maxLines
  /\ \E line \in D.lines :
       LET item_id == line.item_id
           quantity == line.quantity
           c == req[p].company_id
           price == items[item_id].price
           stock_quantity == QtyIn(tx[p], item_id)
           prevQty == IF item_id \in DOMAIN loc[p].existingMap
                        THEN loc[p].existingMap[item_id] ELSE 0
           quantityChange == QuantityChange(quantity, prevQty)
       IN /\ req' = [req EXCEPT ![p].items =
                       Append(@, [item_id |-> item_id, quantity |-> quantity])]
          /\ IF LineError(item_id, quantity) # "none"
               THEN Fail(p, LineError(item_id, quantity)) /\ loc' = loc
             ELSE IF ~ItemFound(item_id, c)
               THEN Fail(p, "ItemNotFound") /\ loc' = loc
             ELSE IF quantityChange > 0 /\ stock_quantity < quantityChange
               THEN Fail(p, "InsufficientStock") /\ loc' = loc
             ELSE /\ loc' = [loc EXCEPT
                               ![p].totalAmount = @ + price * quantity,
                               ![p].line = [item_id |-> item_id,
                                            quantity |-> quantity,
                                            price |-> price,
                                            change |-> quantityChange]]
                  /\ pc' = [pc EXCEPT ![p] = "u_upsert"]
                  /\ UNCHANGED <<tables, tx, usedIds, res, stockBefore,
                                 undisturbed>>
  /\ UNCHANGED <<snap, isolated, served, hist>>

\* UPDATE invoice_items SET quantity, price_at_purchase, total_line_amount
\* WHERE invoice_id = k AND item_id = i: every row of the item is rewritten
LineUpdate(t, k, i, quantity, price) ==
  LET n == BagCardinality(LinesOfItem(LinesIn(t), k, i))
      row == [invoice_id |-> k, item_id |-> i, quantity |-> quantity,
              price_at_purchase |-> price,
              total_line_amount |-> price * quantity]
      rest == Restrict(t.lnew,
                       LAMBDA r : ~(r.invoice_id = k /\ r.item_id = i))
  IN [t EXCEPT !.lkeys = @ \cup {<<k, i>>},
               !.lnew = IF n = 0 THEN rest ELSE rest (+) (row :> n)]

\* DELETE FROM invoice_items WHERE invoice_id = k AND item_id \in is
LineDelete(t, k, is) ==
  [t EXCEPT !.lkeys = @ \cup {<<k, i>> : i \in is},
            !.lnew = Restrict(@, LAMBDA r :
                                   ~(r.invoice_id = k /\ r.item_id \in is))]

\* the transactions the line write of p waits for
UpsertLockers(p) ==
  IF loc[p].line.item_id \in DOMAIN loc[p].existingMap
    THEN LineLockers(p, req[p].id, {loc[p].line.item_id})
  ELSE {}

\* update line if existingMap.has(item_id), else insert new line
UpdateUpsert(p) ==
  /\ pc[p] = "u_upsert"
  /\ UpsertLockers(p) = {}
  /\ LET k == req[p].id
         l == loc[p].line
         row == [invoice_id |-> k, item_id |-> l.item_id,
                 quantity |-> l.quantity, price_at_purchase |-> l.price,
                 total_line_amount |-> l.price * l.quantity]
     IN IF l.item_id \in DOMAIN loc[p].existingMap
          THEN /\ tx' = [tx EXCEPT ![p] =
                           LineUpdate(tx[p], k, l.item_id, l.quantity, l.price)]
               /\ pc' = [pc EXCEPT ![p] = "u_stock"]
               /\ UNCHANGED <<tables, usedIds, res, stockBefore, undisturbed>>
        ELSE IF RowIn(tx[p], k) = NoRow
          \* invoice_id REFERENCES invoices(id): violation 23503
          THEN Fail(p, "ForeignKeyViolation")
        ELSE /\ tx' = [tx EXCEPT ![p].lnew = @ (+) SetToBag({row})]
             /\ pc' = [pc EXCEPT ![p] = "u_stock"]
             /\ UNCHANGED <<tables, usedIds, res, stockBefore, undisturbed>>
  /\ UNCHANGED <<req, loc, snap, isolated, served, hist>>

\* adjust stock WITH company scope; existingMap.delete(item_id)
UpdateStock(p) ==
  /\ pc[p] = "u_stock"
  /\ StockLockers(p, loc[p].line.item_id) = {}
  /\ LET t == StockWrite(p, loc[p].line.item_id, loc[p].line.change)
     IN IF ~StockWriteOk(t)
          THEN Fail(p, "CheckViolation") /\ loc' = loc
        ELSE /\ tx' = [tx EXCEPT ![p] = t]
             /\ loc' = [loc EXCEPT ![p].existingMap =
                                     Remove(@, loc[p].line.item_id)]
             /\ pc' = [pc EXCEPT ![p] = "u_line"]
             /\ UNCHANGED <<tables, usedIds, res, stockBefore, undisturbed>>
  /\ UNCHANGED <<req, snap, isolated, served, hist>>

\* after the removals (or when there are none): recompute the total from the
\* stored lines; COMMIT
UpdateFinish(p, t) ==
  Succeed(p, RecomputeTotal(t, req[p].id, req[p].company_id), req[p].id)

\* the loop over items ends: either the next statement deletes the lines of
\* the first item left in existingMap, or there is none left
UpdateEndItems(p) ==
  /\ pc[p] = "u_line"
  /\ IF DOMAIN loc[p].existingMap = {}
       THEN UpdateFinish(p, tx[p]) /\ loc' = loc
     ELSE /\ \E i \in DOMAIN loc[p].existingMap :
               loc' = [loc EXCEPT ![p].line =
                         [item_id |-> i, quantity |-> loc[p].existingMap[i],
                          price |-> 0, change |-> 0 - loc[p].existingMap[i]]]
          /\ pc' = [pc EXCEPT ![p] = "u_rdel"]
          /\ UNCHANGED <<tables, tx, usedIds, res, stockBefore, undisturbed>>
  /\ UNCHANGED <<req, snap, isolated, served, hist>>

\* DELETE FROM invoice_items WHERE invoice_id = id AND item_id = oldItemId
UpdateRemovedDelete(p) ==
  /\ pc[p] = "u_rdel"
  /\ LineLockers(p, req[p].id, {loc[p].line.item_id}) = {}
  /\ tx' = [tx EXCEPT ![p] = LineDelete(tx[p], req[p].id, {loc[p].line.item_id})]
  /\ pc' = [pc EXCEPT ![p] = "u_rstock"]
  /\ UNCHANGED <<tables, usedIds, res, stockBefore, undisturbed, req, loc,
                 snap, isolated, served, hist>>

\* UPDATE items SET quantity = quantity + oldQty WHERE id = oldItemId AND
\* company_id = c; then the next removed item, or the end of the handler
UpdateRemovedStock(p) ==
  /\ pc[p] = "u_rstock"
  /\ StockLockers(p, loc[p].line.item_id) = {}
  /\ LET t == StockWrite(p, loc[p].line.item_id, loc[p].line.change)
         left == Remove(loc[p].existingMap, loc[p].line.item_id)
     IN IF ~StockWriteOk(t)
          THEN Fail(p, "CheckViolation") /\ loc' = loc
        ELSE IF DOMAIN left = {}
          THEN /\ UpdateFinish(p, t)
               /\ loc' = [loc EXCEPT ![p].existingMap = left]
        ELSE /\ \E i \in DOMAIN left :
                  loc' = [loc EXCEPT
                            ![p].existingMap = left,
                            ![p].line = [item_id |-> i, quantity |-> left[i],
                                         price |-> 0, change |-> 0 - left[i]]]
             /\ tx' = [tx EXCEPT ![p] = t]
             /\ pc' = [pc EXCEPT ![p] = "u_rdel"]
             /\ UNCHANGED <<tables, usedIds, res, stockBefore, undisturbed>>
  /\ UNCHANGED <<req, snap, isolated, served, hist>>

\* ------------------------------------------------------------ deleteInvoice
\* BEGIN; check ownership
DeleteStart(p, D) ==
  \E c \in D.companies, id \in D.ids :
    /\ Begin(p, D, [NoReq EXCEPT !.op = "delete", !.company_id = c, !.id = id])
    /\ loc' = loc
    /\ IF ~InvoiceFound(tx[p], id, c)
         THEN Fail(p, "InvoiceNotFound")
       ELSE /\ pc' = [pc EXCEPT ![p] = "d_lines"]
            /\ UNCHANGED <<tables, tx, usedIds, res, stockBefore, undisturbed>>

\* the for loop over lines.rows takes the next row (rows come in no
\* specified order), or ends
NextRow(p, rows) ==
  IF rows = EmptyBag
    THEN /\ loc' = [loc EXCEPT ![p].rows = rows]
         /\ pc' = [pc EXCEPT ![p] = "d_dellines"]
  ELSE /\ \E r \in DOMAIN rows :
            loc' = [loc EXCEPT
                      ![p].rows = rows (-) SetToBag({r}),
                      ![p].line = [item_id |-> r.item_id,
                                   quantity |-> r.quantity, price |-> 0,
                                   change |-> 0 - r.quantity]]
       /\ pc' = [pc EXCEPT ![p] = "d_stock"]

\* SELECT item_id, quantity FROM invoice_items WHERE invoice_id = id
DeleteReadLines(p) ==
  /\ pc[p] = "d_lines"
  /\ NextRow(p, LinesOf(LinesIn(tx[p]), req[p].id))
  /\ UNCHANGED <<tables, tx, usedIds, res, stockBefore, undisturbed, req,
                 snap, isolated, served, hist>>

\* UPDATE items SET quantity = quantity + line.quantity WHERE id = line.item_id
\* AND company_id = c
DeleteStock(p) ==
  /\ pc[p] = "d_stock"
  /\ StockLockers(p, loc[p].line.item_id) = {}
  /\ LET t == StockWrite(p, loc[p].line.item_id, loc[p].line.change)
     IN IF ~StockWriteOk(t)
          THEN Fail(p, "CheckViolation") /\ loc' = loc
        ELSE /\ tx' = [tx EXCEPT ![p] = t]
             /\ NextRow(p, loc[p].rows)
             /\ UNCHANGED <<tables, usedIds, res, stockBefore, undisturbed>>
  /\ UNCHANGED <<req, snap, isolated, served, hist>>

\* the items that have lines on invoice k, as seen with writes t
LineItems(t, k) == {r.item_id : r \in DOMAIN LinesOf(LinesIn(t), k)}

\* the transactions the DELETE of the lines waits for
DeleteLinesLockers(p) ==
  IF InvoiceFound(tx[p], req[p].id, req[p].company_id)
    THEN LineLockers(p, req[p].id, LineItems(tx[p], req[p].id))
  ELSE {}

\* DELETE FROM invoice_items ii USING invoices inv WHERE ii.invoice_id = inv.id
\* AND inv.id = id AND inv.company_id = c
DeleteLines(p) ==
  /\ pc[p] = "d_dellines"
  /\ DeleteLinesLockers(p) = {}
  /\ tx' = [tx EXCEPT ![p] =
              IF InvoiceFound(tx[p], req[p].id, req[p].company_id)
                THEN LineDelete(tx[p], req[p].id, LineItems(tx[p], req[p].id))
              ELSE tx[p]]
  /\ pc' = [pc EXCEPT ![p] = "d_delinv"]
  /\ UNCHANGED <<tables, usedIds, res, stockBefore, undisturbed, req, loc,
                 snap, isolated, served, hist>>

\* DELETE FROM invoices WHERE id = id AND company_id = c, with the
\* ON DELETE CASCADE of invoice_items.invoice_id; COMMIT
DeleteInvoice(p) ==
  /\ pc[p] = "d_delinv"
  /\ InvLockers(p, req[p].id) = {}
  /\ LET k == req[p].id
         t == IF InvoiceFound(tx[p], k, req[p].company_id)
                THEN [LineDelete(tx[p], k, LineItems(tx[p], k))
                        EXCEPT !.invoices = (k :> NoRow) @@ @]
              ELSE tx[p]
     IN Succeed(p, t, k)
  /\ UNCHANGED <<req, loc, snap, isolated, served, hist>>

\* ------------------------------------------------------ updateInvoiceStatus
\* (variant) the status update also resets the total
StatusRowResetsTotal(row, st) == [row EXCEPT !.status = st, !.total_amount = 0]

\* UPDATE invoices SET status = st, updated_at = NOW(): the row afterwards
\* (updated_at is not part of the modelled row)
StatusRow(row, st) == [row EXCEPT !.status = st]

\* validStatuses.includes(status); one UPDATE ... RETURNING on the pool
\* (its own transaction)
UpdateInvoiceStatus(p, D) ==
  \E c \in D.companies, id \in D.ids, st \in D.newStatuses :
    /\ Begin(p, D, [NoReq EXCEPT !.op = "status", !.company_id = c, !.id = id,
                              !.status = st])
    /\ loc' = loc
    /\ IF st \notin Statuses
         THEN Fail(p, "InvalidStatus")
       ELSE /\ InvLockers(p, id) = {}
            /\ IF InvoiceFound(tx[p], id, c)
                 THEN Succeed(p, [tx[p] EXCEPT !.invoices =
                                    (id :> StatusRow(invoices[id], st)) @@ @],
                              id)
               ELSE Fail(p, "InvoiceNotFound")

\* ----------------------------------------------------------- getInvoiceById
\* SELECT the invoice WHERE id AND company_id, then its lines
GetInvoiceById(p, D) ==
  \E c \in D.companies, id \in D.ids :
    /\ Begin(p, D, [NoReq EXCEPT !.op = "get", !.company_id = c, !.id = id])
    /\ loc' = loc
    /\ pc' = [pc EXCEPT ![p] = "done"]
    /\ res' = [res EXCEPT ![p] =
                 IF InvoiceFound(tx[p], id, c) THEN "ok" ELSE "InvoiceNotFound"]
    /\ UNCHANGED <<tables, tx, usedIds, stockBefore, undisturbed>>

\* --------------------------------------------------------- getInvoiceSummary
\* (variant) no due date is ever earlier than NOW()
NeverPast(d) == FALSE

\* due_date < NOW(): of the two dates, d1 has passed and d2 has not
IsPast(d) == d = "d1"

RECURSIVE SummaryOver(_, _, _)
\* COUNT(*), SUM(total_amount), SUM(CASE WHEN status = 'paid' ...),
\* COUNT(CASE WHEN status != 'paid' AND due_date < NOW() ...) over the rows of
\* company c among the invoices inv with ids in S
SummaryOver(inv, c, S) ==
  IF S = {} THEN NoSummary
  ELSE LET k == CHOOSE x \in S : TRUE
           rest == SummaryOver(inv, c, S \ {k})
           row == inv[k]
       IN IF row = NoRow \/ row.company_id # c THEN rest
          ELSE [total_invoices |-> rest.total_invoices + 1,
                total_amount |-> rest.total_amount + row.total_amount,
                paid_amount |-> rest.paid_amount +
                  (IF row.status = "paid" THEN row.total_amount ELSE 0),
                overdue |-> rest.overdue +
                  (IF row.status # "paid" /\ row.due_date # NULL
                        /\ IsPast(row.due_date) THEN 1 ELSE 0)]

\* (variant) a read that sees the rows other open transactions have written
DirtyInvoices(p) ==
  [k \in InvIds |->
     IF \E q \in Procs \ {p} : k \in DOMAIN tx[q].invoices
       THEN tx[CHOOSE q \in Procs \ {p} : k \in DOMAIN tx[q].invoices].invoices[k]
     ELSE invoices[k]]

\* the invoices a statement run on the pool by p sees: the committed rows
ReadInvoices(p) == invoices

\* one SELECT of the aggregates WHERE company_id = c, on the pool
GetInvoiceSummary(p, D) ==
  \E c \in D.companies :
    /\ Begin(p, D, [NoReq EXCEPT !.op = "summary", !.company_id = c])
    /\ loc' = [loc EXCEPT ![p].summary = SummaryOver(ReadInvoices(p), c, InvIds)]
    /\ pc' = [pc EXCEPT ![p] = "done"]
    /\ res' = [res EXCEPT ![p] = "ok"]
    /\ UNCHANGED <<tables, tx, usedIds, stockBefore, undisturbed>>

\* --------------------------------------- getMonthlySummary (reportController)
\* FROM invoices i JOIN parties p ON i.party_id = p.id WHERE invoice_date >=
\* CURRENT_DATE - INTERVAL '5 months': the rows the report of tenant c is
\* computed from (every invoice is dated CURRENT_DATE by its INSERT)
ReportRows(inv, c) == {k \in InvIds : inv[k] # NoRow}

RECURSIVE SumAmountOf(_, _, _)
\* SUM(CASE WHEN p.type = type THEN i.total_amount ELSE 0 END) over the rows S
SumAmountOf(inv, S, type) ==
  IF S = {} THEN 0
  ELSE LET k == CHOOSE x \in S : TRUE
       IN (IF PartyType(inv[k].party_id) = type THEN inv[k].total_amount ELSE 0)
            + SumAmountOf(inv, S \ {k}, type)

\* GROUP BY month: no row without invoices, else the one month's sums
MonthlyOver(inv, S) ==
  IF S = {} THEN NoMonthly
  ELSE [months |-> 1,
        total_sales |-> SumAmountOf(inv, S, "customer"),
        total_purchases |-> SumAmountOf(inv, S, "supplier")]

\* one SELECT on the pool
GetMonthlySummary(p, D) ==
  \E c \in D.companies :
    /\ Begin(p, D, [NoReq EXCEPT !.op = "monthly", !.company_id = c])
    /\ loc' = [loc EXCEPT ![p].monthly =
                MonthlyOver(ReadInvoices(p), ReportRows(ReadInvoices(p), c))]
    /\ pc' = [pc EXCEPT ![p] = "done"]
    /\ res' = [res EXCEPT ![p] = "ok"]
    /\ UNCHANGED <<tables, tx, usedIds, stockBefore, undisturbed>>

\* ------------------------------------------------- updateItem (itemController)
\* COALESCE($n, column) for an optional number
Coalesce(opt, old) == IF opt = <<>> THEN old ELSE opt[1]

\* items: price NUMERIC CHECK (price >= 0)
ItemsPriceCheck(x) == x >= 0

\* one UPDATE items SET price = COALESCE($3, price), quantity =
\* COALESCE($4, quantity), ... WHERE id = $6 AND company_id = $7, on the pool
UpdateItem(p, D) ==
  \E c \in D.companies, i \in D.editItems, price \in D.prices,
     quantity \in D.quantities :
    LET new == [items[i] EXCEPT !.price = Coalesce(price, @),
                                !.quantity = Coalesce(quantity, @)]
    IN /\ Begin(p, D, [NoReq EXCEPT !.op = "item", !.company_id = c, !.id = i,
                                    !.price = price, !.quantity = quantity])
       /\ loc' = loc
       /\ pc' = [pc EXCEPT ![p] = "done"]
       /\ UNCHANGED <<invoices, invoice_items, tx, usedIds, stockBefore>>
       /\ IF ~ItemFound(i, c)
            THEN /\ res' = [res EXCEPT ![p] = "ItemNotFound"]
                 /\ UNCHANGED <<items, undisturbed>>
          ELSE /\ ItemLockers(p, i) = {}
               /\ IF ItemsQuantityCheck(new.quantity) /\ ItemsPriceCheck(new.price)
                    THEN /\ items' = [items EXCEPT ![i] = new]
                         /\ res' = [res EXCEPT ![p] = "ok"]
                         /\ undisturbed' =
                              [k \in InvIds |->
                                 undisturbed[k]
                                   /\ new.quantity = items[i].quantity]
                  ELSE /\ res' = [res EXCEPT ![p] = "ServerError"]
                       /\ UNCHANGED <<items, undisturbed>>

\* ------------------------------------------------------------ lock waits
\* the open transactions the next statement of p waits for
Blockers(p) ==
  CASE pc[p] = "c_insert" ->
         KeyLockers(p, req[p].company_id, req[p].invoice_number)
    [] pc[p] \in {"c_stock", "u_stock", "u_rstock", "d_stock"} ->
         StockLockers(p, loc[p].line.item_id)
    [] pc[p] = "u_meta" -> InvLockers(p, req[p].id)
    [] pc[p] = "u_upsert" -> UpsertLockers(p)
    [] pc[p] = "u_rdel" -> LineLockers(p, req[p].id, {loc[p].line.item_id})
    [] pc[p] = "d_dellines" -> DeleteLinesLockers(p)
    [] pc[p] = "d_delinv" -> InvLockers(p, req[p].id)
    [] OTHER -> {}

\* (variant) a database without deadlock detection: nobody is aborted
NoDeadlockDetector(p) == FALSE

\* PostgreSQL's deadlock detector: of two transactions waiting for each
\* other's row locks one is aborted (error 40P01), which the handler catches
DeadlockAbort(p) ==
  /\ \E q \in Blockers(p) : p \in Blockers(q)
  /\ Fail(p, "DeadlockDetected")
  /\ UNCHANGED <<req, loc, snap, isolated, served, hist>>

\* ------------------------------------------------------------------ Next
\* one step of the handler running on connection p, with requests from D
Step(p, D) ==
  \/ CreateStart(p, D)
  \/ CreateInsert(p, D)
  \/ CreateLine(p, D)
  \/ CreateStock(p)
  \/ CreateCommit(p)
  \/ UpdateStart(p, D)
  \/ UpdateMeta(p, D)
  \/ UpdateLine(p, D)
  \/ UpdateUpsert(p)
  \/ UpdateStock(p)
  \/ UpdateEndItems(p)
  \/ UpdateRemovedDelete(p)
  \/ UpdateRemovedStock(p)
  \/ DeleteStart(p, D)
  \/ DeleteReadLines(p)
  \/ DeleteStock(p)
  \/ DeleteLines(p)
  \/ DeleteInvoice(p)
  \/ UpdateInvoiceStatus(p, D)
  \/ GetInvoiceById(p, D)
  \/ GetInvoiceSummary(p, D)
  \/ GetMonthlySummary(p, D)
  \/ UpdateItem(p, D)
  \/ Respond(p, D)

\* two connections interleave
Next == \E p \in Procs : Step(p, Narrow) \/ DeadlockAbort(p)

Spec == Init /\ [][Next]_vars

\* one connection: requests are served one after the other
SeqNext == Step("a", Wide)

SeqSpec == Init /\ [][SeqNext]_vars

\* one connection, both tenants create invoices
TenantNext == Step("a", Tenants)

TenantSpec == Init /\ [][TenantNext]_vars

\* one connection, invoices of one item whose catalog row is edited
CatalogNext == Step("a", Catalog)

CatalogSpec == Init /\ [][CatalogNext]_vars

\* the caller of the request served on p goes away (closes the connection,
\* gives up waiting) while the handler runs: no handler listens for it, the
\* awaited queries go on
Abandon(p) ==
  /\ Open(p)
  /\ ~abandoned[p]
  /\ abandoned' = [abandoned EXCEPT ![p] = TRUE]
  /\ UNCHANGED <<tables, tx, usedIds, pc, req, loc, res, snap, isolated,
                 stockBefore, undisturbed, served, prev>>

\* one connection, one invoice of one item; the request answered last is
\* remembered and the caller may go away
ReplayNext == Step("a", Replay) \/ Abandon("a")

ReplaySpec == Init /\ [][ReplayNext]_vars

\* one connection, invoices created and updated with status values
MarkedNext == Step("a", Marked)

MarkedSpec == Init /\ [][MarkedNext]_vars

\* two connections bill two items; a started handler goes on: node resumes
\* every awaited query when the database answers, and the database answers a
\* statement once the row locks it waits for are released or its transaction
\* is chosen by the deadlock detector
CrossNext == \E p \in Procs : Step(p, Cross) \/ DeadlockAbort(p)

Running(p) == pc[p] # "idle" /\ (Step(p, Cross) \/ DeadlockAbort(p))

CrossSpec ==
  Init /\ [][CrossNext]_vars /\ \A p \in Procs : WF_vars(Running(p))

\* ============================================================== claims
Done(p) == pc[p] = "done"
Ok(p) == Done(p) /\ res[p] = "ok"
Failed(p) == Done(p) /\ res[p] # "ok"

\* the committed tables are what they were when the request of p started
TablesAsBefore(p) ==
  /\ snap[p].items = items
  /\ snap[p].invoices = invoices
  /\ snap[p].invoice_items = invoice_items

\* the (item, quantity) pairs of a request's items array, as a bag
RECURSIVE ItemsBag(_)
ItemsBag(seq) ==
  IF seq = <<>> THEN EmptyBag
  ELSE SetToBag({Head(seq)}) (+) ItemsBag(Tail(seq))

\* the (item, quantity) pairs of the lines stored for invoice k, as a bag
RECURSIVE PairsOfSet(_, _)
PairsOfSet(B, S) ==
  IF S = {} THEN EmptyBag
  ELSE LET r == CHOOSE x \in S : TRUE
       IN ([item_id |-> r.item_id, quantity |-> r.quantity] :> B[r])
            (+) PairsOfSet(B, S \ {r})
StoredPairs(k) == PairsOfSet(LinesOf(invoice_items, k), DOMAIN LinesOf(invoice_items, k))

\* C1: in every reachable state, whatever the interleaving of createInvoice,
\* updateInvoice and deleteInvoice transactions, committed or aborted, the
\* stock_quantity of every item is >= 0 (in the committed table and in the
\* uncommitted writes of every open transaction).
C1_StockNeverNegative ==
  /\ \A i \in Items : items[i].quantity >= 0
  /\ \A p \in Procs : \A i \in DOMAIN tx[p].items : tx[p].items[i] >= 0

\* C1 witness: a transaction that ran concurrently with another one had its
\* stock update rejected, and the stock of the item is 0.
C1_Witness ==
  \E p \in Procs : /\ Done(p) /\ ~isolated[p]
                   /\ res[p] = "CheckViolation"
                   /\ items["i1"].quantity = 0

\* p and q are createInvoice requests that ran concurrently, each with the
\* single line (i, all the stock i had when the request started)
BothTakeAll(p, q, i) ==
  /\ p # q /\ Done(p) /\ Done(q)
  /\ ~isolated[p] /\ ~isolated[q]
  /\ \A x \in {p, q} :
       /\ req[x].op = "create"
       /\ snap[x].items[i].quantity > 0
       /\ req[x].items =
            <<[item_id |-> i, quantity |-> snap[x].items[i].quantity]>>

\* C2 (as claimed): when two createInvoice transactions run concurrently and
\* each requests all remaining stock of the same item, exactly one commits,
\* the other fails with InsufficientStock, and the final stock is zero.
C2_OneCommitsOtherInsufficientStock ==
  \A p, q \in Procs : \A i \in Items :
    BothTakeAll(p, q, i) =>
      /\ items[i].quantity = 0
      /\ \/ res[p] = "ok" /\ res[q] = "InsufficientStock"
         \/ res[q] = "ok" /\ res[p] = "InsufficientStock"

\* C3: for every createInvoice that commits, the stored lines are the lines
\* of the request, the stored total_amount is the sum of their
\* total_line_amount, and the stock of every item is lower than before the
\* call by the quantity of the invoice's line(s) of that item and by nothing
\* else.
C3_CreateTotalsAndStock ==
  \A p \in Procs :
    (Ok(p) /\ req[p].op = "create" /\ isolated[p]) =>
      LET k == loc[p].invoiceId
          L == LinesOf(invoice_items, k)
      IN /\ invoices[k] # NoRow
         /\ StoredPairs(k) = ItemsBag(req[p].items)
         /\ \A r \in DOMAIN L :
              r.total_line_amount = r.price_at_purchase * r.quantity
         /\ invoices[k].total_amount = SumTotal(L)
         /\ \A i \in Items :
              snap[p].items[i].quantity - items[i].quantity
                = SumQty(LinesOfItem(invoice_items, k, i))

\* C3 witness: a committed createInvoice with two lines on two items.
C3_Witness ==
  \E p \in Procs :
    /\ Ok(p) /\ req[p].op = "create" /\ Len(req[p].items) = 2
    /\ req[p].items[1].item_id # req[p].items[2].item_id
    /\ invoices[loc[p].invoiceId].total_amount > 0

\* C4 (as claimed): for every updateInvoice with a lines payload that
\* commits, the stored lines are exactly the desired set (one stored line per
\* desired item, with the desired quantity, and no others) and total_amount
\* is the sum of the stored lines' total_line_amount.
C4_UpdateStoresDesiredSet ==
  \A p \in Procs :
    (Ok(p) /\ req[p].op = "update" /\ req[p].hasItems /\ isolated[p]) =>
      LET k == req[p].id
          L == LinesOf(invoice_items, k)
          desired == {req[p].items[n] : n \in 1 .. Len(req[p].items)}
      IN /\ BagToSet(StoredPairs(k)) = desired
         /\ \A d \in desired :
              BagCardinality(LinesOfItem(invoice_items, k, d.item_id)) = 1
         /\ invoices[k].total_amount = SumTotal(L)

\* C5 (as claimed): for every deleteInvoice that commits with no concurrent
\* mutation, the stock of every item equals its stock before the invoice was
\* created, and the invoice and all its lines are gone.
C5_DeleteRestoresStock ==
  \A p \in Procs :
    (Ok(p) /\ req[p].op = "delete" /\ isolated[p] /\ undisturbed[req[p].id]) =>
      /\ invoices[req[p].id] = NoRow
      /\ LinesOf(invoice_items, req[p].id) = EmptyBag
      /\ \A i \in Items : items[i].quantity = stockBefore[req[p].id][i]

\* C6: if createInvoice fails at any step (party not found, duplicate invoice
\* number, a line without item, a quantity of 0 or negative, item not found,
\* insufficient stock), also on a later line after earlier lines were
\* inserted and their stock decremented, then there is no new invoice, no new
\* line and every stock is what it was before the call.
C6_FailedCreateChangesNothing ==
  \A p \in Procs :
    (Failed(p) /\ req[p].op = "create" /\ isolated[p]) =>
      /\ TablesAsBefore(p)
      /\ tx[p] = NoWrites

\* C6 witness: a createInvoice that failed on its second line, after the
\* first line was inserted and its stock decremented.
C6_Witness ==
  \E p \in Procs :
    /\ Failed(p) /\ req[p].op = "create" /\ Len(req[p].items) = 2
    /\ res[p] = "InsufficientStock"
    /\ loc[p].line.item_id = req[p].items[1].item_id

\* C7: if updateInvoice fails at any step (invoice not found, party not
\* found, non-positive quantity, item not found, insufficient stock), also on
\* a later line after the invoice's fields were overwritten and earlier lines
\* reconciled, then the invoice's fields, lines and total and every stock are
\* what they were before the call.
C7_FailedUpdateChangesNothing ==
  \A p \in Procs :
    (Failed(p) /\ req[p].op = "update" /\ isolated[p]) =>
      /\ TablesAsBefore(p)
      /\ tx[p] = NoWrites

\* C7 witness: an updateInvoice that overwrote the status, reconciled a first
\* line and then failed on the second line.
C7_Witness ==
  \E p \in Procs :
    /\ Failed(p) /\ req[p].op = "update" /\ Len(req[p].items) = 2
    /\ req[p].status = "paid"
    /\ snap[p].invoices[req[p].id].status = "draft"
    /\ res[p] \in {"InsufficientStock", "ItemNotFound", "InvalidQuantity"}
    /\ loc[p].line.item_id = req[p].items[1].item_id

ForeignOrAbsent(p) ==
  /\ Done(p)
  /\ req[p].op \in {"get", "update", "status", "delete"}
  /\ isolated[p]
  /\ \/ snap[p].invoices[req[p].id] = NoRow
     \/ snap[p].invoices[req[p].id].company_id # req[p].company_id

LastLine(p) == req[p].items[Len(req[p].items)]

NumberUsedBy(p, c, n) ==
  \E k \in InvIds : /\ snap[p].invoices[k] # NoRow
                    /\ snap[p].invoices[k].company_id = c
                    /\ snap[p].invoices[k].invoice_number = n

PlainLine(k, i, q) ==
  [invoice_id |-> k, item_id |-> i, quantity |-> q,
   price_at_purchase |-> items[i].price,
   total_line_amount |-> items[i].price * q]

\* when the request of p started, invoice k of its tenant held exactly the
\* line (i, q) at the current price, its total was price * q and the stock
\* of i was its stock before the invoice was created minus q
AsCreatedWith(p, k, i, q) ==
  /\ snap[p].invoices[k] # NoRow
  /\ snap[p].invoices[k].company_id = req[p].company_id
  /\ LinesOf(snap[p].invoice_items, k) = SetToBag({PlainLine(k, i, q)})
  /\ snap[p].invoices[k].total_amount = items[i].price * q
  /\ i \in DOMAIN stockBefore[k]
  /\ snap[p].items[i].quantity = stockBefore[k][i] - q

C13_StatusUpdateIdempotent ==
  \A p \in Procs :
    (Done(p) /\ req[p].op = "status" /\ isolated[p]) =>
      /\ items = snap[p].items
      /\ invoice_items = snap[p].invoice_items
      /\ \A k \in InvIds :
           invoices[k] =
             IF k = req[p].id /\ res[p] = "ok"
               THEN [snap[p].invoices[k] EXCEPT !.status = req[p].status]
             ELSE snap[p].invoices[k]
      /\ snap[p].invoices[req[p].id].status = req[p].status
           => invoices = snap[p].invoices

\* C13 witness: a second updateInvoiceStatus with the status the invoice
\* already has succeeded on an invoice that has lines.
C13_Witness ==
  \E p \in Procs :
    /\ Ok(p) /\ req[p].op = "status"
    /\ snap[p].invoices[req[p].id].status = req[p].status
    /\ LinesOf(invoice_items, req[p].id) # EmptyBag

\* C14 (as claimed): an updateInvoice that re-specifies an item the invoice
\* already has a line for leaves that line's price_at_purchase as it was,
\* also when the catalog price of the item has changed since.
C14_PriceAtPurchaseFixed ==
  \A p \in Procs :
    (Ok(p) /\ req[p].op = "update" /\ req[p].hasItems /\ isolated[p]) =>
      \A r \in DOMAIN LinesOf(invoice_items, req[p].id) :
        \A old \in DOMAIN LinesOf(snap[p].invoice_items, req[p].id) :
          r.item_id = old.item_id
            => r.price_at_purchase = old.price_at_purchase

\* the items array names some item_id more than once
\* (every line being valid by itself)
HasDuplicate(seq) ==
  /\ \A n \in 1 .. Len(seq) : LineError(seq[n].item_id, seq[n].quantity) = "none"
  /\ \E m, n \in 1 .. Len(seq) : m # n /\ seq[m].item_id = seq[n].item_id

\* C15 (as claimed): a createInvoice or updateInvoice whose line list holds
\* the same item_id more than once is rejected with DuplicateLineItem and
\* changes nothing; no invoice ever has two stored lines for one item.
C15_DuplicateLineRejected ==
  /\ \A p \in Procs :
       (/\ Done(p) /\ req[p].op \in {"create", "update"}
        /\ HasDuplicate(req[p].items)) =>
         res[p] = "DuplicateLineItem" /\ TablesAsBefore(p)
  /\ \A k \in InvIds : \A i \in Items :
       BagCardinality(LinesOfItem(invoice_items, k, i)) <= 1

\* C16: an updateInvoice whose request has no items array leaves every
\* invoice line, every stock and every total_amount as they were; of the
\* invoice's row only due_date, party_id and status may change.
C16_UpdateWithoutLines ==
  \A p \in Procs :
    (Done(p) /\ req[p].op = "update" /\ ~req[p].hasItems /\ isolated[p]) =>
      /\ items = snap[p].items
      /\ invoice_items = snap[p].invoice_items
      /\ \A k \in InvIds :
           IF k = req[p].id /\ invoices[k] # NoRow
             THEN invoices[k] =
                    [snap[p].invoices[k] EXCEPT
                       !.due_date = invoices[k].due_date,
                       !.party_id = invoices[k].party_id,
                       !.status = invoices[k].status]
           ELSE invoices[k] = snap[p].invoices[k]

\* C16 witness: an updateInvoice without items array changed the status of
\* an invoice that has lines.
C16_Witness ==
  \E p \in Procs :
    /\ Ok(p) /\ req[p].op = "update" /\ ~req[p].hasItems
    /\ req[p].status = "paid"
    /\ snap[p].invoices[req[p].id].status = "draft"
    /\ LinesOf(invoice_items, req[p].id) # EmptyBag

C18_StockOnlyByDelta ==
  \A p \in Procs :
    (/\ Done(p) /\ isolated[p]
     /\ \E i \in Items : items[i].quantity # snap[p].items[i].quantity)
      => req[p].op \in {"create", "update", "delete"}

CommittedOnLines(i) ==
  SumQtySet(invoice_items, {r \in DOMAIN invoice_items : r.item_id = i})

\* C20 (as claimed): stock conservation: in every committed state reached by
\* any sequence and interleaving of createInvoice, updateInvoice and
\* deleteInvoice, for every item, stock_quantity plus the quantities of the
\* committed invoice lines on that item is what it was at the start.
C20_StockConservation ==
  \A i \in Items : items[i].quantity + CommittedOnLines(i) = InitStock

\* a deleteInvoice of p and an updateInvoice with a lines payload of q on the
\* same invoice have both finished, the delete has committed and the invoice
\* is gone
DeleteMetUpdate(p, q) ==
  /\ p # q /\ Ok(p) /\ Done(q)
  /\ req[p].op = "delete"
  /\ req[q].op = "update" /\ req[q].hasItems
  /\ req[p].id = req[q].id
  /\ invoices[req[p].id] = NoRow

\* C21 (as claimed): when a deleteInvoice and an updateInvoice changing
\* quantities meet on the same invoice, the delete returns the quantity that
\* is stored on the lines it removes: once both have finished and the
\* invoice is deleted, every item's stock, together with the lines of the
\* remaining invoices, is what it was before the invoice existed.
C21_DeleteNeverShortsStock ==
  \A p, q \in Procs :
    DeleteMetUpdate(p, q) =>
      \A i \in Items : items[i].quantity + CommittedOnLines(i) = InitStock

\* two deleteInvoice calls for the same invoice have both answered success
BothDeleted(p, q) ==
  /\ p # q /\ Ok(p) /\ Ok(q)
  /\ req[p].op = "delete" /\ req[q].op = "delete"
  /\ req[p].id = req[q].id /\ req[p].company_id = req[q].company_id
  /\ invoices[req[p].id] = NoRow

\* C22 (as claimed): when two deleteInvoice calls for the same invoice run
\* concurrently, the quantity of each line is returned to stock exactly
\* once: after both finish, every item's stock (with the lines of the
\* remaining invoices) is what it was before the invoice existed, never more.
C22_DeleteReturnsStockOnce ==
  \A p, q \in Procs :
    BothDeleted(p, q) =>
      \A i \in Items : items[i].quantity + CommittedOnLines(i) = InitStock

\* two createInvoice requests of one tenant with one invoice_number have
\* overlapped and both have finished
BothCreateSameNumber(p, q) ==
  /\ p # q /\ Done(p) /\ Done(q)
  /\ ~isolated[p] /\ ~isolated[q]
  /\ req[p].op = "create" /\ req[q].op = "create"
  /\ req[p].company_id = req[q].company_id
  /\ req[p].invoice_number = req[q].invoice_number

\* the committed invoices of tenant c numbered n
Numbered(c, n) ==
  {k \in InvIds : /\ invoices[k] # NoRow
                  /\ invoices[k].company_id = c
                  /\ invoices[k].invoice_number = n}

C24_MutationTerminates ==
  \A p \in Procs : Open(p) ~> Done(p)

\* two createInvoice requests took the same two items in opposite order and
\* the deadlock detector has aborted one of them
C24_Witness ==
  \E p \in Procs : \E q \in Procs \ {p} :
    /\ Done(p) /\ res[p] = "DeadlockDetected"
    /\ req[p].op = "create" /\ req[q].op = "create"
    /\ Len(req[p].items) = 2 /\ Len(req[q].items) = 2
    /\ req[p].items[1].item_id = req[q].items[2].item_id
    /\ req[p].items[2].item_id = req[q].items[1].item_id
    /\ req[p].items[1].item_id # req[p].items[2].item_id
    /\ TablesAsBefore(p)

\* the quantity the lines of invoice k held for item i when p started
PrevQty(p, k, i) == SumQty(LinesOfItem(snap[p].invoice_items, k, i))

\* an updateInvoice of p with a lines payload has finished; it found its
\* invoice, every line it went through is valid and names an item of the
\* tenant, no item is named twice and no item had two stored lines
PlainUpdate(p) ==
  /\ Done(p) /\ isolated[p]
  /\ req[p].op = "update" /\ req[p].hasItems /\ req[p].items # <<>>
  /\ snap[p].invoices[req[p].id] # NoRow
  /\ snap[p].invoices[req[p].id].company_id = req[p].company_id
  /\ \A n \in 1..Len(req[p].items) :
       /\ LineError(req[p].items[n].item_id, req[p].items[n].quantity) = "none"
       /\ ItemFound(req[p].items[n].item_id, req[p].company_id)
  /\ \A m, n \in 1..Len(req[p].items) :
       m # n => req[p].items[m].item_id # req[p].items[n].item_id
  /\ \A i \in Items :
       BagCardinality(LinesOfItem(snap[p].invoice_items, req[p].id, i)) <= 1

\* line l of the request of p needs more new units than the stock held
ShortFor(p, l) ==
  LET delta == l.quantity - PrevQty(p, req[p].id, l.item_id)
  IN delta > 0 /\ snap[p].items[l.item_id].quantity < delta

\* C25: in updateInvoice, for each desired line with delta = desired quantity
\* - existing quantity (0 if the item had no line): if delta > 0 the update
\* fails with InsufficientStock exactly when the item's stock is < delta,
\* and otherwise lowers the stock by delta; if delta <= 0 no availability
\* check is made and the stock rises by -delta.
C25_UpdateChecksDelta ==
  \A p \in Procs :
    PlainUpdate(p) =>
      /\ res[p] \in {"ok", "InsufficientStock"}
      /\ res[p] = "InsufficientStock" <=> ShortFor(p, LastLine(p))
      /\ Ok(p) =>
           \A n \in 1..Len(req[p].items) :
             LET l == req[p].items[n]
             IN /\ ~ShortFor(p, l)
                /\ snap[p].items[l.item_id].quantity
                     - items[l.item_id].quantity
                     = l.quantity - PrevQty(p, req[p].id, l.item_id)

\* an update that raised one line within the stock and lowered another
C25_Witness ==
  \E p \in Procs : \E m, n \in 1..MaxLines :
    /\ PlainUpdate(p) /\ Ok(p)
    /\ Len(req[p].items) = MaxLines
    /\ LET a == req[p].items[m]
           b == req[p].items[n]
       IN /\ PrevQty(p, req[p].id, a.item_id) > 0
          /\ a.quantity > PrevQty(p, req[p].id, a.item_id)
          /\ a.quantity > snap[p].items[a.item_id].quantity
          /\ b.quantity < PrevQty(p, req[p].id, b.item_id)

\* the items named by the lines of a request
Desired(p) == {req[p].items[n].item_id : n \in 1..Len(req[p].items)}

\* C26 (as claimed): in a committed updateInvoice with a lines payload, every
\* item that had a stored line on the invoice but is absent from the desired
\* list has its line deleted and its full stored quantity added back to its
\* stock; items neither in the old lines nor in the desired list keep their
\* stock.
C26_RemovedLinesReturnStock ==
  \A p \in Procs :
    (Ok(p) /\ isolated[p] /\ req[p].op = "update" /\ req[p].hasItems) =>
      \A i \in Items \ Desired(p) :
        /\ LinesOfItem(invoice_items, req[p].id, i) = EmptyBag
        /\ items[i].quantity - snap[p].items[i].quantity
             = PrevQty(p, req[p].id, i)


\* an updateInvoice of p on an invoice of its tenant, with an empty lines
\* array, has finished
EmptyUpdate(p) ==
  /\ Done(p) /\ isolated[p]
  /\ req[p].op = "update" /\ req[p].hasItems /\ req[p].items = <<>>
  /\ snap[p].invoices[req[p].id] # NoRow
  /\ snap[p].invoices[req[p].id].company_id = req[p].company_id

\* C27 (as claimed): updateInvoice with an empty lines array succeeds,
\* removes every line of the invoice, returns every line's quantity to
\* stock, and sets total_amount to 0, while the invoice itself remains.
C27_EmptyLinesClearInvoice ==
  \A p \in Procs :
    EmptyUpdate(p) =>
      /\ Ok(p)
      /\ LinesOf(invoice_items, req[p].id) = EmptyBag
      /\ \A i \in Items :
           items[i].quantity - snap[p].items[i].quantity
             = PrevQty(p, req[p].id, i)
      /\ invoices[req[p].id] # NoRow
      /\ invoices[req[p].id].total_amount = 0

\* two updateInvoice requests with lines payloads on the same invoice have
\* overlapped and both have committed
BothUpdated(p, q) ==
  /\ p # q /\ Ok(p) /\ Ok(q)
  /\ ~isolated[p] /\ ~isolated[q]
  /\ req[p].op = "update" /\ req[q].op = "update"
  /\ req[p].hasItems /\ req[q].hasItems
  /\ req[p].id = req[q].id

BadStatus(p) == req[p].status # NULL /\ req[p].status \notin Statuses

\* C29 (as claimed): every stored invoice's status is one of draft, sent, paid, cancelled
\* in every reachable state: updateInvoiceStatus with any other value fails
\* with InvalidStatus without touching storage, createInvoice and
\* updateInvoice with any other status value abort with no state change,
\* and createInvoice without a status stores draft.
C29_StatusAlwaysValid ==
  /\ \A k \in InvIds : invoices[k] # NoRow => invoices[k].status \in Statuses
  /\ \A p \in Procs : \A k \in DOMAIN tx[p].invoices :
       tx[p].invoices[k] # NoRow => tx[p].invoices[k].status \in Statuses
  /\ \A p \in Procs :
       (Done(p) /\ BadStatus(p)) =>
         /\ TablesAsBefore(p)
         /\ req[p].op = "status" => res[p] = "InvalidStatus"
         /\ req[p].op \in {"create", "update"} => Failed(p)
  /\ \A p \in Procs :
       (Ok(p) /\ req[p].op = "create" /\ req[p].status = NULL) =>
         invoices[loc[p].invoiceId].status = "draft"

\* C30: no invoice operation performed by a tenant ever changes the
\* stock_quantity of an item owned by a different tenant, whatever its
\* inputs (item ids of the other tenant in its line list, invoices of the
\* other tenant as target).
C30_ForeignStockUntouched ==
  \A p \in Procs :
    (/\ Done(p) /\ isolated[p]
     /\ req[p].op \in {"create", "update", "delete", "status", "get"})
    => \A i \in Items :
         ItemCompany(i) # req[p].company_id
           => items[i].quantity = snap[p].items[i].quantity

\* a tenant has put an item of the other tenant in its line list, or has
\* aimed a delete at an invoice of the other tenant, while the other tenant
\* holds an invoice with a line on its own item
C30_Witness ==
  \E p \in Procs : \E k \in InvIds : \E r \in DOMAIN invoice_items :
    /\ Done(p) /\ isolated[p]
    /\ invoices[k] # NoRow /\ invoices[k].company_id # req[p].company_id
    /\ r.invoice_id = k /\ ItemCompany(r.item_id) = invoices[k].company_id
    /\ \/ /\ req[p].op \in {"create", "update"}
          /\ req[p].items # <<>>
          /\ LastLine(p).item_id = r.item_id
          /\ res[p] = "ItemNotFound"
       \/ /\ req[p].op = "delete" /\ req[p].id = k
          /\ res[p] = "InvoiceNotFound"
    /\ items[r.item_id].quantity = InitStock - r.quantity

\* the invoices of tenant c
OwnRows(inv, c) ==
  {k \in InvIds : inv[k] # NoRow /\ inv[k].company_id = c}

\* C31 (as claimed): every read aggregate returned to a tenant (invoice
\* summary, monthly sales/purchase summary) is computed only from that
\* tenant's invoices, so the invoices of another tenant never change the
\* values it receives.
C31_AggregatesOwnInvoicesOnly ==
  \A p \in Procs :
    /\ (Done(p) /\ req[p].op = "summary")
         => loc[p].summary =
              SummaryOver(snap[p].invoices, req[p].company_id, InvIds)
    /\ (Done(p) /\ req[p].op = "monthly")
         => loc[p].monthly =
              MonthlyOver(snap[p].invoices,
                          OwnRows(snap[p].invoices, req[p].company_id))

RECURSIVE AmountOf(_, _)
\* the sum of total_amount over the invoices of inv with ids in S
AmountOf(inv, S) ==
  IF S = {} THEN 0
  ELSE LET k == CHOOSE x \in S : TRUE
       IN inv[k].total_amount + AmountOf(inv, S \ {k})

\* the answer getInvoiceSummary owes to p, from the invoices committed when
\* the request arrived
OwedSummary(p) ==
  LET inv == snap[p].invoices
      own == OwnRows(inv, req[p].company_id)
      paid == {k \in own : inv[k].status = "paid"}
      late == {k \in own : inv[k].status # "paid" /\ inv[k].due_date = "d1"}
  IN [total_invoices |-> Cardinality(own),
      total_amount |-> AmountOf(inv, own),
      paid_amount |-> AmountOf(inv, paid),
      overdue |-> Cardinality(late)]

\* C33: getInvoiceSummary returns, for the calling tenant, the number of its
\* committed invoices, the sum of their total_amount, the sum of total_amount
\* over the paid ones, and the number of unpaid ones whose due_date is
\* earlier than now (an invoice without due_date is never overdue); all four
\* are 0 when the tenant has no invoice.
C33_SummaryValues ==
  \A p \in Procs :
    (Done(p) /\ req[p].op = "summary") =>
      /\ res[p] = "ok"
      /\ loc[p].summary = OwedSummary(p)
      /\ OwnRows(snap[p].invoices, req[p].company_id) = {}
           => loc[p].summary = [total_invoices |-> 0, total_amount |-> 0,
                                paid_amount |-> 0, overdue |-> 0]

\* a tenant whose one invoice is unpaid, overdue and not empty receives its
\* summary while the other tenant has an invoice as well
C33_Witness ==
  \E p \in Procs :
    /\ Done(p) /\ req[p].op = "summary"
    /\ loc[p].summary.total_invoices = 1
    /\ loc[p].summary.overdue = 1
    /\ loc[p].summary.total_amount > 0
    /\ \E k \in InvIds : /\ invoices[k] # NoRow
                         /\ invoices[k].company_id # req[p].company_id


\* p resubmits a committed createInvoice: its tenant, party and number are
\* those of an invoice committed when the request arrived
Resubmitted(p) ==
  /\ req[p].op = "create"
  /\ \E k \in InvIds : /\ snap[p].invoices[k] # NoRow
                       /\ snap[p].invoices[k].company_id = req[p].company_id
                       /\ snap[p].invoices[k].party_id = req[p].party_id
                       /\ snap[p].invoices[k].invoice_number =
                            req[p].invoice_number

\* C35: a createInvoice resubmitted after it has committed is answered with
\* DuplicateInvoiceNumber, and the step that answers it writes no invoice row
\* and changes no table (no stock is deducted a second time) and leaves
\* exactly one invoice of the tenant under that number; whatever the number
\* of resubmissions, also when two run at once, a tenant never has two
\* invoices under one number.
C35_ResubmittedCreateRefused ==
  /\ [][\A p \in Procs :
         (pc[p] # "done" /\ pc'[p] = "done" /\ Resubmitted(p)') =>
           /\ res'[p] = "DuplicateInvoiceNumber"
           /\ loc'[p].invoiceId = NULL
           /\ tables' = tables
           /\ Cardinality({k \in InvIds :
                 /\ invoices'[k] # NoRow
                 /\ invoices'[k].company_id = req'[p].company_id
                 /\ invoices'[k].invoice_number = req'[p].invoice_number})
                = 1]_vars
  /\ [](\A c \in Companies, n \in InvoiceNumbers :
          Cardinality(Numbered(c, n)) <= 1)

\* C35 witness: an invoice with a line was committed (its item's stock is
\* one lower) and both connections have resubmitted it and were refused.
C35_Witness ==
  \E p, q \in Procs :
    /\ p # q
    /\ Failed(p) /\ Resubmitted(p) /\ Failed(q) /\ Resubmitted(q)
    /\ req[p].invoice_number = req[q].invoice_number
    /\ items["i1"].quantity = InitStock - 1
    /\ invoice_items # EmptyBag

\* the request p has served is the successful updateInvoice answered just
\* before it, sent again: same invoice, same fields, same lines
AppliedAgain(p) ==
  /\ Ok(p) /\ req[p].op = "update" /\ req[p].hasItems
  /\ prev[p].res = "ok"
  /\ prev[p].req = req[p]

\* C34 (as claimed): a successful updateInvoice applied a second time (same
\* desired lines, no catalog price change in between) leaves the stored
\* lines, total_amount and every item's stock exactly as after the first
\* application.
C34_UpdateIdempotent ==
  \A p \in Procs : AppliedAgain(p) => TablesAsBefore(p)


\* C32 (as claimed): a create, update or delete request abandoned by its
\* caller before commit rolls back: no invoice, line or stock change made by
\* it is in the committed tables once it has ended.
C32_AbandonedRollsBack ==
  \A p \in Procs :
    (/\ Done(p) /\ abandoned[p]
     /\ req[p].op \in {"create", "update", "delete"}) => TablesAsBefore(p)
====
